---- MODULE Spec2Model ----
(***************************************************************************)
(* Model of the Socket.IO relay server of undercover-word-game:            *)
(* GameRoom (rooms/gameRoom.ts), RoomManager (rooms/roomManager.ts), the   *)
(* binding tables (utils/helpers.ts) and the event handlers                *)
(* (handlers/gameHandlers.ts).  Node runs each handler to completion, so   *)
(* every handler is one atomic action.                                     *)
(***************************************************************************)
EXTENDS Integers, Sequences, FiniteSets, TLC

(* ---- bounds ---- *)
NumConns == 3
NumCodes == 2
MaxPayloadPlayers == 1
MaxStatePlayers == 3
MaxOps == 4
NumDraws == 3
MaxPlayerCount == 21
MaxSpecial == 2

Conns == 1..NumConns
Codes == 1..NumCodes
Names == {"Alice", "Bob"}
Phases == {"setup", "playing"}
NoRoom == 0
NoConn == 0
CodeLength == 6

VARIABLES
  status,          \* connection -> "new" | "open" | "closed"
  rooms,           \* RoomManager.rooms : code -> GameRoom
  socketToPlayer,  \* helpers.socketToPlayer : socket id -> player id
  playerToRoom,    \* helpers.playerToRoom : player id -> room code
  sockRooms,       \* socket.rooms : the transport groups of each socket
  hung,            \* RoomManager.createRoom is spinning in its retry loop
  outbox,          \* messages the last handler emitted, per receiving connection
  lastOp,          \* the request the last handler served
  lastAccepted,    \* per code: the payload of the last accepted updateGameState
  present,         \* per code: connections that entered the live room and have not left it since
  ops,             \* number of client requests the server has handled
  published,       \* per code: the payloads of the accepted updateGameState requests, in order
  delivered,       \* per connection: the gameState broadcasts emitted to it, in order
  departed,        \* per code: identities removed by leaveRoom/disconnect that have not joined again
  former,          \* per code: identities of earlier rooms under this code that did not enter the current one
  view,            \* per connection: isHost and roomId of the WebSocketProvider that owns the socket
  gen,             \* generateRoomId: loop counter i, the string result, and whether it has been returned
  roles            \* role setup: the player count, the distribution in use and the verdict on it

vars == <<status, rooms, socketToPlayer, playerToRoom, sockRooms, hung,
          outbox, lastOp, lastAccepted, present, ops,
          published, delivered, departed, former, view, gen, roles>>

(* ---- values ---- *)
Player(id, name) == [id |-> id, name |-> name]

PlayerLists(ids) ==
  UNION {[1..n -> [id : ids, name : Names]] : n \in 0..MaxPayloadPlayers}

Payloads(ids) == [players : PlayerLists(ids), phase : Phases]

NoPayload == [players |-> <<>>, phase |-> "none"]

NoOp == [kind |-> "none", conn |-> NoConn, room |-> NoRoom,
         payload |-> NoPayload, accepted |-> FALSE]

Op(kind, c, r, p, ok) ==
  [kind |-> kind, conn |-> c, room |-> r, payload |-> p, accepted |-> ok]

Msg(ev, body) == [ev |-> ev, body |-> body]

(* ---- JavaScript Map / Array helpers ---- *)
RECURSIVE IndexOf(_, _)
IndexOf(seq, id) ==
  IF seq = <<>> THEN 0
  ELSE IF seq[Len(seq)].id = id /\ IndexOf(SubSeq(seq, 1, Len(seq) - 1), id) = 0
       THEN Len(seq)
       ELSE IndexOf(SubSeq(seq, 1, Len(seq) - 1), id)

\* Map.prototype.set: an existing key keeps its position, a new key is appended
MapSet(seq, p) ==
  IF IndexOf(seq, p.id) = 0 THEN Append(seq, p)
  ELSE [seq EXCEPT ![IndexOf(seq, p.id)] = p]

\* Map.prototype.delete / Array.prototype.filter(p => p.id !== id)
RECURSIVE FilterOut(_, _)
FilterOut(seq, id) ==
  IF seq = <<>> THEN <<>>
  ELSE IF Head(seq).id = id THEN FilterOut(Tail(seq), id)
       ELSE <<Head(seq)>> \o FilterOut(Tail(seq), id)

Ids(seq) == {seq[i].id : i \in 1..Len(seq)}

\* faulty variant: the delete is forgotten
MapDelete_Keep(f, k) == f

\* Map.prototype.delete on a table: socketToPlayer, playerToRoom, rooms
MapDelete(f, k) == [x \in DOMAIN f \ {k} |-> f[x]]

\* Map.prototype.set on a table
MapPut(f, k, v) == [x \in DOMAIN f \cup {k} |-> IF x = k THEN v ELSE f[x]]

(* ---- GameRoom ---- *)
\* faulty variant: the constructor forgets this.players.set(hostId, hostPlayer)
NewGameRoom_NoHostEntry(roomId, hostId, hostName) ==
  [roomId    |-> roomId,
   hostId    |-> hostId,
   players   |-> <<>>,
   gameState |-> [players |-> <<Player(hostId, hostName)>>, phase |-> "setup"]]

NewGameRoom(roomId, hostId, hostName) ==
  [roomId    |-> roomId,
   hostId    |-> hostId,
   players   |-> <<Player(hostId, hostName)>>,
   gameState |-> [players |-> <<Player(hostId, hostName)>>, phase |-> "setup"]]

RECURSIVE SetAll(_, _)
SetAll(map, list) ==
  IF list = <<>> THEN map ELSE SetAll(MapSet(map, Head(list)), Tail(list))

RoomUpdateGameState(room, newState) ==
  [room EXCEPT !.gameState = newState,
               !.players = SetAll(room.players, newState.players)]

\* faulty variant: addPlayer pushes to gameState.players but forgets this.players.set
RoomAddPlayer_StateOnly(room, playerId, playerName) ==
  [room EXCEPT !.gameState.players = Append(room.gameState.players,
                                            Player(playerId, playerName))]

\* faulty variant: addPlayer sets this.players but forgets the push to gameState.players
RoomAddPlayer_MapOnly(room, playerId, playerName) ==
  [room EXCEPT !.players = MapSet(room.players, Player(playerId, playerName))]

RoomAddPlayer(room, playerId, playerName) ==
  [room EXCEPT !.players = MapSet(room.players, Player(playerId, playerName)),
               !.gameState.players = Append(room.gameState.players,
                                            Player(playerId, playerName))]

\* faulty variant: removePlayer hands the host role to the first remaining member
RoomRemovePlayer_Promote(room, playerId) ==
  LET rest == FilterOut(room.players, playerId)
  IN [room EXCEPT !.players = rest,
                  !.gameState.players = FilterOut(room.gameState.players, playerId),
                  !.hostId = IF playerId = room.hostId /\ rest # <<>>
                             THEN rest[1].id ELSE @]

\* faulty variant: removePlayer deletes from this.players but leaves gameState.players
RoomRemovePlayer_MapOnly(room, playerId) ==
  [room EXCEPT !.players = FilterOut(room.players, playerId)]

RoomRemovePlayer(room, playerId) ==
  [room EXCEPT !.players = FilterOut(room.players, playerId),
               !.gameState.players = FilterOut(room.gameState.players, playerId)]

\* faulty variant: isEmpty never reports an empty room
RoomIsEmpty_Never(room) == FALSE

RoomIsEmpty(room) == Len(room.players) = 0

(* ---- Socket.IO emission ---- *)
Quiet == [c \in Conns |-> <<>>]

\* faulty variant: io.emit(...) instead of socket.emit: every socket gets it
EmitSelf_All(ob, c, m) == [d \in Conns |-> Append(ob[d], m)]

\* socket.emit(...) and the acknowledgement callback: to the socket itself
EmitSelf(ob, c, m) == [ob EXCEPT ![c] = Append(ob[c], m)]

\* faulty variant: the broadcast is emitted twice
EmitToGroup_Twice(ob, sr, group, sender, m) ==
  [c \in Conns |-> IF c # sender /\ group \in sr[c] THEN ob[c] \o <<m, m>> ELSE ob[c]]

\* faulty variant: io.to(group).emit(...) instead of socket.to: the sender is not excluded
EmitToGroup_Echo(ob, sr, group, sender, m) ==
  [c \in Conns |-> IF group \in sr[c] THEN Append(ob[c], m) ELSE ob[c]]

\* socket.to(group).emit(...): every socket of the group except the sender
EmitToGroup(ob, sr, group, sender, m) ==
  [c \in Conns |-> IF c # sender /\ group \in sr[c] THEN Append(ob[c], m) ELSE ob[c]]

\* faulty variant: the message is kept for a socket that has disconnected
EmitToId_Closed(ob, st, id, m) ==
  [c \in Conns |-> IF c = id THEN Append(ob[c], m) ELSE ob[c]]

\* io.to(id).emit(...): the socket whose own group is named id, while connected
EmitToId(ob, st, id, m) ==
  [c \in Conns |-> IF c = id /\ st[c] = "open" THEN Append(ob[c], m) ELSE ob[c]]

Dist(u, w) == [undercovers |-> u, mrWhites |-> w]

\* no player count has been entered yet
NoRoles == [stage |-> "idle", playerCount |-> 0, distribution |-> Dist(0, 0),
            meets |-> FALSE]

\* generateRoomId has not been called: let result = ''
NoCode == [i |-> 0, result |-> <<>>, returned |-> FALSE]

\* WebSocketProvider's useState(false) for isHost and useState(null) for roomId
FreshView == [isHost |-> FALSE, roomId |-> NoRoom]

\* the client side of the request just served (context/WebSocketContext.tsx):
\* hostGame's callback sets roomId and isHost = true, joinGame's callback sets
\* roomId and isHost = false on success, leaveGame resets both; the socket's
\* disconnect listener only clears connected, which status stands for
ClientFollows ==
  LET k == lastOp'.kind
      c == lastOp'.conn
  IN IF k = "connect" THEN TRUE
     ELSE view' =
            IF k = "createRoom" /\ lastOp'.accepted
            THEN [view EXCEPT ![c] = [isHost |-> TRUE, roomId |-> lastOp'.room]]
            ELSE IF k = "joinRoom" /\ lastOp'.accepted
            THEN [view EXCEPT ![c] = [isHost |-> FALSE, roomId |-> lastOp'.room]]
            ELSE IF k = "leaveRoom"
            THEN [view EXCEPT ![c] = FreshView]
            ELSE view

\* what an observer of the handler that just ran writes down: the payload an
\* accepted updateGameState stored, the gameState broadcasts it emitted (each
\* with the room and the position of its payload among the accepted ones), who
\* was removed from a room by handlePlayerDisconnect, and who belonged to a room
\* that removeRoom has deleted
Remember ==
  LET k == lastOp'.kind
      c == lastOp'.conn
      r == lastOp'.room
      ok == lastOp'.accepted
  IN /\ published' =
          IF k = "updateGameState" /\ ok
          THEN [published EXCEPT ![r] = Append(@, lastOp'.payload)]
          ELSE published
     /\ delivered' =
          IF k = "updateGameState" /\ ok
          THEN [d \in Conns |->
                  delivered[d] \o
                    [i \in 1..Len(outbox'[d]) |->
                       [room |-> r, n |-> Len(published'[r]),
                        payload |-> outbox'[d][i].body]]]
          ELSE delivered
     /\ departed' =
          IF k \in {"leaveRoom", "disconnect"} /\ ok
          THEN [departed EXCEPT ![r] = IF r \in DOMAIN rooms' THEN @ \cup {c} ELSE {}]
          ELSE IF k = "joinRoom" /\ ok THEN [departed EXCEPT ![r] = @ \ {c}]
          ELSE IF k = "createRoom" /\ ok THEN [departed EXCEPT ![r] = {}]
          ELSE departed
     /\ former' =
          IF k \in {"leaveRoom", "disconnect"} /\ ok /\ r \notin DOMAIN rooms'
          THEN [former EXCEPT ![r] = @ \cup departed[r] \cup {c}]
          ELSE IF k \in {"joinRoom", "createRoom"} /\ ok
          THEN [former EXCEPT ![r] = @ \ {c}]
          ELSE former
     /\ ClientFollows
     /\ gen' = gen
     /\ roles' = roles

Init ==
  /\ status = [c \in Conns |-> "new"]
  /\ rooms = <<>>
  /\ socketToPlayer = <<>>
  /\ playerToRoom = <<>>
  /\ sockRooms = [c \in Conns |-> {}]
  /\ hung = FALSE
  /\ outbox = Quiet
  /\ lastOp = NoOp
  /\ lastAccepted = [r \in Codes |-> NoPayload]
  /\ present = [r \in Codes |-> {}]
  /\ ops = 0
  /\ published = [r \in Codes |-> <<>>]
  /\ delivered = [c \in Conns |-> <<>>]
  /\ departed = [r \in Codes |-> {}]
  /\ former = [r \in Codes |-> {}]
  /\ view = [c \in Conns |-> FreshView]
  /\ gen = NoCode
  /\ roles = NoRoles

\* faulty variant: one identity is handed to every socket
PlayerIdOf_Shared(c) == 1

\* the player id the handlers store for a socket: socket.id itself
PlayerIdOf(c) == c

\* the server takes the next request: it is not stuck in a loop
Serve ==
  /\ ~hung
  /\ ops < MaxOps
  /\ ops' = ops + 1

\* io.on('connection'): the n-th connection gets socket id n.  The socket is
\* the first one of a new client (old = NoConn), or the one a client opens when
\* socket.io-client reconnects after its socket old was closed: the provider
\* keeps its isHost and roomId
Connect(c, old) ==
  /\ ~hung
  /\ status[c] = "new"
  /\ \A d \in Conns : d < c => status[d] # "new"
  /\ IF old = NoConn THEN TRUE
     ELSE status[old] = "closed" /\ view[old] # FreshView
  /\ view' = [d \in Conns |->
                IF d = c THEN (IF old = NoConn THEN FreshView ELSE view[old])
                ELSE IF d = old THEN FreshView
                ELSE view[d]]
  /\ status' = [status EXCEPT ![c] = "open"]
  /\ outbox' = Quiet
  /\ lastOp' = Op("connect", c, NoRoom, NoPayload, TRUE)
  /\ UNCHANGED <<rooms, socketToPlayer, playerToRoom, sockRooms, hung, lastAccepted,
                 present, ops>>
  /\ Remember

\* faulty variant: createRoom takes the first generated code without the has() loop
FreeCodes_Any(rs) == Codes

\* RoomManager.createRoom's retry loop ends on a code that is no key of rooms
FreeCodes(rs) == Codes \ DOMAIN rs

\* socket.on('createRoom'), with RoomManager.createRoom
CreateRoom(c, username) ==
  /\ Serve
  /\ status[c] = "open"
  /\ IF FreeCodes(rooms) = {}
     THEN \* generateRoomId can only return codes in use: the loop never ends
          /\ hung' = TRUE
          /\ outbox' = Quiet
          /\ lastOp' = Op("createRoom", c, NoRoom, NoPayload, FALSE)
          /\ UNCHANGED <<status, rooms, socketToPlayer, playerToRoom, sockRooms,
                         lastAccepted, present>>
     ELSE \E roomId \in FreeCodes(rooms) :
          /\ rooms' = MapPut(rooms, roomId, NewGameRoom(roomId, c, username))
          /\ socketToPlayer' = MapPut(socketToPlayer, c, PlayerIdOf(c))
          /\ playerToRoom' = MapPut(playerToRoom, PlayerIdOf(c), roomId)
          /\ sockRooms' = [sockRooms EXCEPT ![c] = @ \cup {roomId}]
          /\ outbox' = EmitSelf(Quiet, c, Msg("createRoomAck", roomId))
          /\ lastOp' = Op("createRoom", c, roomId, NoPayload, TRUE)
          /\ lastAccepted' = [lastAccepted EXCEPT ![roomId] = NoPayload]
          /\ present' = [present EXCEPT ![roomId] = {c}]
          /\ UNCHANGED <<status, hung>>
  /\ Remember

\* socket.on('joinRoom')
JoinRoom(c, roomId, username) ==
  /\ Serve
  /\ status[c] = "open"
  /\ IF roomId \notin DOMAIN rooms
     THEN /\ outbox' = EmitSelf(Quiet, c, Msg("joinRoomAck", "Room not found"))
          /\ lastOp' = Op("joinRoom", c, roomId, NoPayload, FALSE)
          /\ UNCHANGED <<status, rooms, socketToPlayer, playerToRoom, sockRooms,
                         hung, lastAccepted, present>>
     ELSE /\ Len(rooms[roomId].gameState.players) < MaxStatePlayers
          /\ rooms' = [rooms EXCEPT ![roomId] = RoomAddPlayer(@, c, username)]
          /\ socketToPlayer' = MapPut(socketToPlayer, c, PlayerIdOf(c))
          /\ playerToRoom' = MapPut(playerToRoom, PlayerIdOf(c), roomId)
          /\ sockRooms' = [sockRooms EXCEPT ![c] = @ \cup {roomId}]
          /\ outbox' =
               EmitSelf(
                 EmitSelf(
                   EmitToGroup(Quiet, sockRooms', roomId, c,
                               Msg("playerJoined", Player(c, username))),
                   c, Msg("gameState", rooms'[roomId].gameState)),
                 c, Msg("joinRoomAck", "ok"))
          /\ lastOp' = Op("joinRoom", c, roomId, NoPayload, TRUE)
          /\ present' = [present EXCEPT ![roomId] = @ \cup {c}]
          /\ UNCHANGED <<status, hung, lastAccepted>>
  /\ Remember

\* the lookups every bound-sender handler starts with
Bound(c) ==
  /\ c \in DOMAIN socketToPlayer
  /\ socketToPlayer[c] \in DOMAIN playerToRoom
  /\ playerToRoom[socketToPlayer[c]] \in DOMAIN rooms

RoomOf(c) == playerToRoom[socketToPlayer[c]]

\* faulty variant: the host check is missing
IsHost_Any(room, playerId) == TRUE

\* room.getHostId() === playerId
IsHost(room, playerId) == room.hostId = playerId

\* ids a client can put into a payload: those of sockets that have existed
KnownIds == {c \in Conns : status[c] # "new"}

\* socket.on('updateGameState')
UpdateGameState(c, state) ==
  /\ Serve
  /\ status[c] = "open"
  /\ Ids(state.players) \subseteq KnownIds
  /\ IF Bound(c) /\ IsHost(rooms[RoomOf(c)], socketToPlayer[c])
     THEN /\ rooms' = [rooms EXCEPT ![RoomOf(c)] = RoomUpdateGameState(@, state)]
          /\ outbox' = EmitToGroup(Quiet, sockRooms, RoomOf(c), c,
                                   Msg("gameState", state))
          /\ lastOp' = Op("updateGameState", c, RoomOf(c), state, TRUE)
          /\ lastAccepted' = [lastAccepted EXCEPT ![RoomOf(c)] = state]
     ELSE /\ outbox' = Quiet
          /\ lastOp' = Op("updateGameState", c,
                          IF Bound(c) THEN RoomOf(c) ELSE NoRoom, NoPayload, FALSE)
          /\ UNCHANGED <<rooms, lastAccepted>>
  /\ UNCHANGED <<status, socketToPlayer, playerToRoom, sockRooms, hung, present>>
  /\ Remember

\* the body shared by submitVote, submitDescription and submitMrWhiteGuess
ForwardToHost(c, ev) ==
  /\ IF Bound(c)
     THEN /\ outbox' = EmitToId(Quiet, status, rooms[RoomOf(c)].hostId,
                                Msg(ev, "args"))
          /\ lastOp' = Op(ev, c, RoomOf(c), NoPayload, TRUE)
     ELSE /\ outbox' = Quiet
          /\ lastOp' = Op(ev, c, NoRoom, NoPayload, FALSE)
  /\ UNCHANGED <<status, rooms, socketToPlayer, playerToRoom, sockRooms, hung,
                 lastAccepted, present>>
  /\ Remember

\* socket.on('submitVote')
SubmitVote(c) ==
  /\ Serve
  /\ status[c] = "open"
  /\ ForwardToHost(c, "submitVote")

\* socket.on('submitDescription')
SubmitDescription(c) ==
  /\ Serve
  /\ status[c] = "open"
  /\ ForwardToHost(c, "submitDescription")

\* socket.on('submitMrWhiteGuess')
SubmitMrWhiteGuess(c) ==
  /\ Serve
  /\ status[c] = "open"
  /\ ForwardToHost(c, "submitMrWhiteGuess")

\* handlePlayerDisconnect(socket); sr is socket.rooms of every socket on entry
HandlePlayerDisconnect(c, sr, kind) ==
  IF ~Bound(c)
  THEN /\ sockRooms' = sr
       /\ outbox' = Quiet
       /\ lastOp' = Op(kind, c, NoRoom, NoPayload, FALSE)
       /\ present' = IF kind = "disconnect" THEN [r \in Codes |-> present[r] \ {c}]
                     ELSE present
       /\ UNCHANGED <<rooms, socketToPlayer, playerToRoom, lastAccepted>>
  ELSE LET playerId == socketToPlayer[c]
           roomId   == playerToRoom[playerId]
           room     == RoomRemovePlayer(rooms[roomId], playerId)
       IN /\ outbox' = EmitToGroup(Quiet, sr, roomId, c, Msg("playerLeft", playerId))
          /\ socketToPlayer' = MapDelete(socketToPlayer, c)
          /\ playerToRoom' = MapDelete(playerToRoom, playerId)
          /\ IF RoomIsEmpty(room)
             THEN /\ rooms' = MapDelete(rooms, roomId)
                  /\ lastAccepted' = [lastAccepted EXCEPT ![roomId] = NoPayload]
             ELSE /\ rooms' = [rooms EXCEPT ![roomId] = room]
                  /\ UNCHANGED lastAccepted
          /\ sockRooms' = [sr EXCEPT ![c] = @ \ {roomId}]
          /\ present' = [r \in Codes |->
                           IF kind = "disconnect" \/ r = roomId THEN present[r] \ {c}
                           ELSE present[r]]
          /\ lastOp' = Op(kind, c, roomId, NoPayload, TRUE)

\* socket.on('leaveRoom')
LeaveRoom(c) ==
  /\ Serve
  /\ status[c] = "open"
  /\ HandlePlayerDisconnect(c, sockRooms, "leaveRoom")
  /\ UNCHANGED <<status, hung>>
  /\ Remember

\* socket.on('disconnect'): Socket.IO has already taken the socket out of
\* every group when the listener runs
Disconnect(c) ==
  /\ Serve
  /\ status[c] = "open"
  /\ status' = [status EXCEPT ![c] = "closed"]
  /\ HandlePlayerDisconnect(c, [sockRooms EXCEPT ![c] = {}], "disconnect")
  /\ UNCHANGED hung
  /\ Remember

Next ==
  \/ \E c \in Conns, old \in Conns \cup {NoConn} : Connect(c, old)
  \/ \E c \in Conns, n \in Names : CreateRoom(c, n)
  \/ \E c \in Conns, r \in Codes, n \in Names : JoinRoom(c, r, n)
  \/ \E c \in Conns, s \in Payloads(Conns) : UpdateGameState(c, s)
  \/ \E c \in Conns : SubmitVote(c)
  \/ \E c \in Conns : SubmitDescription(c)
  \/ \E c \in Conns : SubmitMrWhiteGuess(c)
  \/ \E c \in Conns : LeaveRoom(c)
  \/ \E c \in Conns : Disconnect(c)

Spec == Init /\ [][Next]_vars

(* ---- generateRoomId (utils/helpers.ts) ---- *)
\* faulty variant: the look-alike characters were left in the alphabet
characters_All ==
  <<"A", "B", "C", "D", "E", "F", "G", "H", "I", "J", "K", "L", "M", "N", "O", "P",
    "Q", "R", "S", "T", "U", "V", "W", "X", "Y", "Z",
    "0", "1", "2", "3", "4", "5", "6", "7", "8", "9">>

\* const characters = 'ABCDEFGHJKLMNPQRSTUVWXYZ23456789'
characters ==
  <<"A", "B", "C", "D", "E", "F", "G", "H", "J", "K", "L", "M", "N", "P",
    "Q", "R", "S", "T", "U", "V", "W", "X", "Y", "Z",
    "2", "3", "4", "5", "6", "7", "8", "9">>

\* String.prototype.charAt: 0-based, the empty string outside the string
CharAt(str, pos) == IF pos + 1 \in DOMAIN str THEN <<str[pos + 1]>> ELSE <<>>

\* the values Math.floor(Math.random() * characters.length) takes here: the
\* first index, the last one, and indexes spread evenly between them
Draws ==
  {(k * (Len(characters) - 1)) \div (NumDraws - 1) : k \in 0..(NumDraws - 1)}

\* everything but gen
serverVars == <<status, rooms, socketToPlayer, playerToRoom, sockRooms, hung,
                outbox, lastOp, lastAccepted, present, ops,
                published, delivered, departed, former, view, roles>>

\* one pass of for (let i = 0; i < 6; i++) result += characters.charAt(...)
GenLoop(pos) ==
  /\ ~gen.returned
  /\ gen.i < CodeLength
  /\ gen' = [gen EXCEPT !.result = @ \o CharAt(characters, pos), !.i = @ + 1]
  /\ UNCHANGED serverVars

\* return result
GenReturn ==
  /\ ~gen.returned
  /\ ~(gen.i < CodeLength)
  /\ gen' = [gen EXCEPT !.returned = TRUE]
  /\ UNCHANGED serverVars

\* the next call of generateRoomId()
GenCall ==
  /\ gen.returned
  /\ gen' = NoCode
  /\ UNCHANGED serverVars

NextGen ==
  \/ \E pos \in Draws : GenLoop(pos)
  \/ GenReturn
  \/ GenCall

SpecGen == Init /\ [][NextGen]_vars

(* ---- role distributions (src/unnamed/part_003) ---- *)
DEFAULT_DISTRIBUTIONS ==
  (4 :> Dist(1, 0)) @@ (5 :> Dist(1, 1)) @@ (6 :> Dist(1, 1)) @@
  (7 :> Dist(2, 1)) @@ (8 :> Dist(2, 1)) @@ (9 :> Dist(3, 1)) @@
  (10 :> Dist(3, 1)) @@ (11 :> Dist(3, 2)) @@ (12 :> Dist(4, 2)) @@
  (13 :> Dist(4, 2)) @@ (14 :> Dist(5, 2)) @@ (15 :> Dist(5, 2)) @@
  (16 :> Dist(5, 3)) @@ (17 :> Dist(6, 3)) @@ (18 :> Dist(6, 3)) @@
  (19 :> Dist(7, 3)) @@ (20 :> Dist(7, 3))

\* DEFAULT_DISTRIBUTIONS[playerCount] || DEFAULT_DISTRIBUTIONS[4]
calculateDefaultDistribution(playerCount) ==
  IF playerCount \in DOMAIN DEFAULT_DISTRIBUTIONS
  THEN DEFAULT_DISTRIBUTIONS[playerCount]
  ELSE DEFAULT_DISTRIBUTIONS[4]

distributionMeetsLimits(distribution, playerCount) ==
  LET undercovers == distribution.undercovers
      mrWhites == distribution.mrWhites
      totalSpecialRoles == undercovers + mrWhites
      civilians == playerCount - totalSpecialRoles
  IN /\ totalSpecialRoles <= civilians
     /\ undercovers < civilians
     /\ undercovers >= 0
     /\ mrWhites >= 0
     /\ totalSpecialRoles > 0

\* everything but roles
notRoles == <<status, rooms, socketToPlayer, playerToRoom, sockRooms, hung,
              outbox, lastOp, lastAccepted, present, ops,
              published, delivered, departed, former, view, gen>>

\* the inputs: a player count and a distribution entered by hand
ChooseRoles(playerCount, distribution) ==
  /\ roles.stage = "idle"
  /\ roles' = [stage |-> "chosen", playerCount |-> playerCount,
               distribution |-> distribution, meets |-> FALSE]
  /\ UNCHANGED notRoles

\* calculateDefaultDistribution(playerCount) replaces the distribution
UseDefault ==
  /\ roles.stage = "chosen"
  /\ roles' = [roles EXCEPT !.stage = "default",
                            !.distribution = calculateDefaultDistribution(roles.playerCount)]
  /\ UNCHANGED notRoles

\* distributionMeetsLimits(distribution, playerCount)
CheckLimits ==
  /\ roles.stage \in {"chosen", "default"}
  /\ roles' = [roles EXCEPT !.stage = IF roles.stage = "default" THEN "defaultChecked"
                                      ELSE "chosenChecked",
                            !.meets = distributionMeetsLimits(roles.distribution,
                                                              roles.playerCount)]
  /\ UNCHANGED notRoles

NextRoles ==
  \/ \E n \in 0..MaxPlayerCount, u \in 0..MaxSpecial, w \in 0..MaxSpecial :
       ChooseRoles(n, Dist(u, w))
  \/ UseDefault
  \/ CheckLimits

SpecRoles == Init /\ [][NextRoles]_vars

(* ======================= claims ======================= *)
ForwardKinds == {"submitVote", "submitDescription", "submitMrWhiteGuess"}
LeaveKinds == {"leaveRoom", "disconnect"}

\* the messages of event ev that connection c received from the last handler
Received(c, ev) == SelectSeq(outbox[c], LAMBDA m : m.ev = ev)

\* C1 - host authority: an updateGameState from a connection bound to room r
\* replaces r's stored state by the payload if the sender's identity is r's
\* host identity, and otherwise leaves every room as it was.
C1_HostAuthority ==
  [][(lastOp'.kind = "updateGameState" /\ lastOp'.room # NoRoom) =>
       LET r == lastOp'.room
           c == lastOp'.conn
       IN IF socketToPlayer[c] = rooms[r].hostId
          THEN lastOp'.accepted /\ rooms'[r].gameState = lastOp'.payload
          ELSE ~lastOp'.accepted /\ rooms' = rooms]_vars

\* a follower's publish of B was dropped while the room holds the host's A
C1_Witness ==
  /\ lastOp.kind = "updateGameState"
  /\ lastOp.room # NoRoom
  /\ ~lastOp.accepted
  /\ lastAccepted[lastOp.room] # NoPayload
  /\ rooms[lastOp.room].gameState = lastAccepted[lastOp.room]

\* C2 - membership implies binding: every identity in a room's member set is
\* bound, in playerToRoom, to that same room.
C2_MembershipImpliesBinding ==
  \A r \in DOMAIN rooms : \A id \in Ids(rooms[r].players) :
    id \in DOMAIN playerToRoom /\ playerToRoom[id] = r

\* C3 - binding implies membership: every identity in playerToRoom maps to a
\* code of the directory, and is in that room's member set.
C3_BindingImpliesMembership ==
  \A id \in DOMAIN playerToRoom :
    /\ playerToRoom[id] \in DOMAIN rooms
    /\ id \in Ids(rooms[playerToRoom[id]].players)

\* a member left a room in which another identity stays bound
C3_Witness ==
  /\ lastOp.kind \in LeaveKinds
  /\ lastOp.accepted
  /\ \E id \in DOMAIN playerToRoom : playerToRoom[id] = lastOp.room

\* C4 - room reclamation: once every connection that created or joined the
\* room under code r has left it or disconnected, r is no key of the directory.
C4_Reclaimed ==
  \A r \in DOMAIN rooms : present[r] # {}

\* C5 - forwarding target: a forward-action from a connection bound to room r
\* reaches only the connection that is currently bound to r and is r's host,
\* and that connection receives it exactly once.
C5_ForwardTarget ==
  (lastOp.kind \in ForwardKinds /\ lastOp.accepted) =>
    \A c \in Conns :
      LET isBoundHost == /\ Bound(c)
                         /\ RoomOf(c) = lastOp.room
                         /\ socketToPlayer[c] = rooms[lastOp.room].hostId
      IN IF isBoundHost
         THEN Len(outbox[c]) = 1 /\ outbox[c][1].ev = lastOp.kind
         ELSE outbox[c] = <<>>

C7_BroadcastExclusion ==
  (lastOp.kind = "updateGameState" /\ lastOp.accepted) =>
    /\ Received(lastOp.conn, "gameState") = <<>>
    /\ \A c \in Conns \ {lastOp.conn} :
         (Bound(c) /\ RoomOf(c) = lastOp.room) =>
           Received(c, "gameState") = <<Msg("gameState", lastOp.payload)>>

\* the host published to two bound followers
C7_Witness ==
  /\ lastOp.kind = "updateGameState"
  /\ lastOp.accepted
  /\ Cardinality({c \in Conns \ {lastOp.conn} :
                    Bound(c) /\ RoomOf(c) = lastOp.room}) >= 2

\* C8 - uniqueness: a room's roomId is the key it is stored under, so no two
\* rooms of the directory share a code, and createRoom returns no code that is
\* a key of the directory when it is called.
C8_Uniqueness ==
  /\ [](\A r \in DOMAIN rooms : rooms[r].roomId = r)
  /\ [](\A r1, r2 \in DOMAIN rooms :
          rooms[r1].roomId = rooms[r2].roomId => r1 = r2)
  /\ [][(lastOp'.kind = "createRoom" /\ lastOp'.accepted) =>
          /\ lastOp'.room \notin DOMAIN rooms
          /\ lastOp'.room \in DOMAIN rooms'
          /\ \A r \in DOMAIN rooms : rooms'[r] = rooms[r]]_vars

\* a room was created while another room was live
C8_Witness ==
  /\ lastOp.kind = "createRoom"
  /\ lastOp.accepted
  /\ Cardinality(DOMAIN rooms) >= 2

\* C9 - room host invariant: the host identity of every room of the directory
\* is a current member of that room.
C9_HostIsMember ==
  \A r \in DOMAIN rooms : rooms[r].hostId \in Ids(rooms[r].players)

C11_PublishChangesOnlyState ==
  [][(lastOp'.kind = "updateGameState" /\ lastOp'.accepted) =>
       /\ rooms'[lastOp'.room].players = rooms[lastOp'.room].players
       /\ rooms'[lastOp'.room].hostId = rooms[lastOp'.room].hostId
       /\ socketToPlayer' = socketToPlayer
       /\ playerToRoom' = playerToRoom]_vars

\* C12 - idempotent disconnect: once the leave/disconnect path has run for a
\* connection it has no binding left, and running the path for a connection
\* without binding changes no room, binding or directory entry and emits
\* nothing.
C12_IdempotentDisconnect ==
  /\ [](lastOp.kind \in LeaveKinds =>
          /\ lastOp.conn \notin DOMAIN socketToPlayer
          /\ lastOp.conn \notin DOMAIN playerToRoom)
  /\ [][(lastOp'.kind \in LeaveKinds /\ lastOp'.conn \notin DOMAIN socketToPlayer) =>
          /\ ~lastOp'.accepted
          /\ rooms' = rooms
          /\ socketToPlayer' = socketToPlayer
          /\ playerToRoom' = playerToRoom
          /\ hung' = hung
          /\ outbox' = Quiet]_vars

\* the path ran without effect for a host that had left its room before
C12_Witness ==
  /\ lastOp.kind \in LeaveKinds
  /\ ~lastOp.accepted
  /\ \E r \in DOMAIN rooms :
       /\ rooms[r].hostId = lastOp.conn
       /\ lastOp.conn \notin Ids(rooms[r].players)
       /\ lastOp.conn \notin present[r]

\* C13 - join of an absent room: the requester alone gets one failure reply,
\* "Room not found"; directory, rooms, binding tables and transport groups
\* stay as they were.
C13_JoinAbsentRoom ==
  [][(lastOp'.kind = "joinRoom" /\ lastOp'.room \notin DOMAIN rooms) =>
       /\ ~lastOp'.accepted
       /\ outbox' = [Quiet EXCEPT ![lastOp'.conn] =
                       <<Msg("joinRoomAck", "Room not found")>>]
       /\ rooms' = rooms
       /\ socketToPlayer' = socketToPlayer
       /\ playerToRoom' = playerToRoom
       /\ sockRooms' = sockRooms]_vars

\* a join of an absent code failed while a room was live and a binding existed
C13_Witness ==
  /\ lastOp.kind = "joinRoom"
  /\ ~lastOp.accepted
  /\ DOMAIN rooms # {}
  /\ DOMAIN playerToRoom # {}

\* C14 - successful join: after a joinRoom for an existing room r the requester
\* is in r's member set and bound to r, it received the success reply, exactly
\* one gameState carrying r's current state and no playerJoined, and every
\* other connected member of r received exactly one playerJoined naming the
\* requester.
C14_SuccessfulJoin ==
  (lastOp.kind = "joinRoom" /\ lastOp.accepted) =>
    LET c == lastOp.conn
        r == lastOp.room
    IN /\ r \in DOMAIN rooms
       /\ c \in Ids(rooms[r].players)
       /\ Bound(c) /\ RoomOf(c) = r
       /\ Received(c, "joinRoomAck") = <<Msg("joinRoomAck", "ok")>>
       /\ Received(c, "gameState") = <<Msg("gameState", rooms[r].gameState)>>
       /\ Received(c, "playerJoined") = <<>>
       /\ \A d \in Ids(rooms[r].players) \ {c} :
            status[d] = "open" =>
              /\ Len(Received(d, "playerJoined")) = 1
              /\ Received(d, "playerJoined")[1].body.id = c

\* C15 - create-room: after a createRoom that returned, only the requester
\* received a message, namely the room code; the directory holds a room under
\* that code whose host is the requester, whose member set is exactly the
\* requester, whose state is the default initial state (the host alone, phase
\* setup), and the requester is bound to that code.
C15_CreateRoom ==
  (lastOp.kind = "createRoom" /\ lastOp.accepted) =>
    LET c == lastOp.conn
        r == lastOp.room
    IN /\ outbox = [Quiet EXCEPT ![c] = <<Msg("createRoomAck", r)>>]
       /\ r \in DOMAIN rooms
       /\ rooms[r].roomId = r
       /\ rooms[r].hostId = c
       /\ Len(rooms[r].players) = 1
       /\ rooms[r].players[1].id = c
       /\ rooms[r].players[1].name \in Names
       /\ rooms[r].gameState = [players |-> rooms[r].players, phase |-> "setup"]
       /\ Bound(c) /\ RoomOf(c) = r

\* a second room was created while the first one is still live with its host
C15_Witness ==
  /\ lastOp.kind = "createRoom"
  /\ lastOp.accepted
  /\ lastOp.conn = 2
  /\ DOMAIN rooms = Codes
  /\ \E r \in Codes : rooms[r].hostId = 1 /\ Bound(1) /\ RoomOf(1) = r

\* C16 - leave/disconnect effect: after a bound connection left or
\* disconnected, its identity is in neither its room's member set nor in the
\* binding tables, it received nothing, and every connected remaining member of
\* that room received exactly one playerLeft carrying that identity.
C16_LeaveEffect ==
  (lastOp.kind \in LeaveKinds /\ lastOp.accepted) =>
    LET c == lastOp.conn
        r == lastOp.room
    IN /\ c \notin DOMAIN socketToPlayer
       /\ c \notin DOMAIN playerToRoom
       /\ outbox[c] = <<>>
       /\ r \in DOMAIN rooms =>
            /\ c \notin Ids(rooms[r].players)
            /\ \A d \in Ids(rooms[r].players) :
                 status[d] = "open" => outbox[d] = <<Msg("playerLeft", c)>>

\* C17 - silent authority rejection: an updateGameState from a bound
\* connection whose identity is not the host identity of its room emits no
\* message to any connection.
C17_SilentRejection ==
  (/\ lastOp.kind = "updateGameState"
   /\ lastOp.room \in DOMAIN rooms
   /\ Bound(lastOp.conn)
   /\ rooms[lastOp.room].hostId # socketToPlayer[lastOp.conn]) =>
    outbox = Quiet

\* a follower's update was dropped while the host and a third member were in
\* the room's transport group
C17_Witness ==
  /\ lastOp.kind = "updateGameState"
  /\ ~lastOp.accepted
  /\ lastOp.room \in DOMAIN rooms
  /\ Bound(lastOp.conn)
  /\ rooms[lastOp.room].hostId # socketToPlayer[lastOp.conn]
  /\ \E h \in Conns \ {lastOp.conn} :
       /\ rooms[lastOp.room].hostId = h
       /\ status[h] = "open"
       /\ lastOp.room \in sockRooms[h]

\* C18 - stale binding is a no-op: an updateGameState or a forwarded action
\* from a connection without a binding (it never created or joined a room, or
\* it has left every room it entered) changes no room, no binding table, no
\* directory entry and no transport group, and emits no message.
C18_StaleBindingNoOp ==
  [][(/\ lastOp'.kind \in ForwardKinds \cup {"updateGameState"}
      /\ \/ lastOp'.conn \notin DOMAIN socketToPlayer
         \/ \A r \in Codes : lastOp'.conn \notin present[r]) =>
       /\ ~lastOp'.accepted
       /\ rooms' = rooms
       /\ socketToPlayer' = socketToPlayer
       /\ playerToRoom' = playerToRoom
       /\ sockRooms' = sockRooms
       /\ outbox' = Quiet]_vars

\* the host left its room, which lives on with another member, and its next
\* updateGameState was dropped
C18_Witness ==
  /\ lastOp.kind = "updateGameState"
  /\ ~lastOp.accepted
  /\ lastOp.conn \notin DOMAIN socketToPlayer
  /\ \E r \in DOMAIN rooms :
       /\ rooms[r].hostId = lastOp.conn
       /\ lastOp.conn \notin present[r]
       /\ present[r] # {}

RoomBroadcasts == {"gameState", "playerJoined", "playerLeft"}

\* C19 - single room per connection in delivery: a connection that receives a
\* gameState, playerJoined or playerLeft of the last handler is bound, and
\* bound to the room that handler acted in.
C19_DeliveryOnlyFromBoundRoom ==
  \A d \in Conns :
    \A i \in 1..Len(outbox[d]) :
      outbox[d][i].ev \in RoomBroadcasts =>
        /\ Bound(d)
        /\ RoomOf(d) = lastOp.room

\* C20 - the directory holds no empty room: after every handler every room of
\* the directory has at least one member, and a leave or disconnect that
\* removed a room's last member removed the room in the same step.
C20_NoEmptyRoom ==
  \A r \in DOMAIN rooms : Len(rooms[r].players) > 0

\* the last member of a room left while another room stays in the directory:
\* the emptied room is gone
C20_Witness ==
  /\ lastOp.kind \in LeaveKinds
  /\ lastOp.accepted
  /\ lastOp.room \notin DOMAIN rooms
  /\ DOMAIN rooms # {}

\* C21 - in-room ordering: the gameState broadcasts a connection has been sent
\* for one room are payloads of accepted updateGameState requests of that room,
\* in the order in which the requests were accepted: each broadcast carries the
\* payload accepted at its position, and of two broadcasts of one room the
\* later one stands at a strictly later position (no reordering, no duplicate).
C21_InRoomOrdering ==
  \A d \in Conns :
    \A i \in 1..Len(delivered[d]) :
      LET e == delivered[d][i]
      IN /\ e.n \in 1..Len(published[e.room])
         /\ e.payload = published[e.room][e.n]
         /\ \A j \in 1..(i - 1) :
              delivered[d][j].room = e.room => delivered[d][j].n < e.n

\* a follower was sent two different payloads of one room, one after the other
C21_Witness ==
  \E d \in Conns :
    /\ Len(delivered[d]) >= 2
    /\ delivered[d][1].room = delivered[d][2].room
    /\ delivered[d][1].payload # delivered[d][2].payload
    /\ delivered[d][1].room \in DOMAIN rooms
    /\ rooms[delivered[d][1].room].hostId # d

\* C22 - createRoom always terminates: the server is never left inside
\* RoomManager.createRoom's retry loop; a createRoom request either returns a
\* code that was absent from the directory or stops with a fault.
C22_CreateRoomTerminates ==
  /\ ~hung
  /\ (lastOp.kind = "createRoom" /\ ~lastOp.accepted) => outbox # Quiet

\* C23 - idempotent addMember: a joinRoom by an identity that is already a
\* member of the room leaves the room's members (with their recorded names)
\* and its stored state as they were.
C23_IdempotentJoin ==
  [][(/\ lastOp'.kind = "joinRoom"
      /\ lastOp'.accepted
      /\ lastOp'.room \in DOMAIN rooms
      /\ lastOp'.conn \in Ids(rooms[lastOp'.room].players)) =>
       rooms'[lastOp'.room] = rooms[lastOp'.room]]_vars

Symbols == {characters[k] : k \in 1..Len(characters)}

LookAlikes == {"0", "O", "1", "I"}

\* C24 - room code format, as stated: every code generateRoomId returns has
\* exactly 6 characters, each from a fixed alphabet of exactly 33 distinct
\* symbols that contains none of 0, O, 1, I.
C24_CodeFormat ==
  /\ gen.returned =>
       /\ Len(gen.result) = 6
       /\ \A k \in 1..Len(gen.result) : gen.result[k] \in Symbols
  /\ Len(characters) = 33
  /\ Cardinality(Symbols) = 33
  /\ Symbols \cap LookAlikes = {}

\* C24 - room code format, amended: the alphabet has exactly 32 distinct
\* symbols (the 26 capital letters and 10 digits without 0, O, 1, I); every
\* returned code has exactly 6 characters, each from that alphabet.
C24_CodeFormatAmended ==
  /\ gen.returned =>
       /\ Len(gen.result) = 6
       /\ \A k \in 1..Len(gen.result) : gen.result[k] \in Symbols
  /\ Len(characters) = 32
  /\ Cardinality(Symbols) = 32
  /\ Symbols \cap LookAlikes = {}

\* a returned code that starts with the first and ends with the last symbol
C24_Witness ==
  /\ gen.returned
  /\ gen.result[1] = "A"
  /\ gen.result[Len(gen.result)] = "9"

\* C25 - host immutability: no step changes the host identity of a room that
\* is in the directory before and after the step.
C25_HostImmutable ==
  [][\A r \in DOMAIN rooms \cap DOMAIN rooms' :
       rooms'[r].hostId = rooms[r].hostId]_vars

\* the host has left its room, the room lives on, and its host identity is
\* still the one that left
C25_Witness ==
  /\ lastOp.kind \in LeaveKinds
  /\ lastOp.accepted
  /\ lastOp.room \in DOMAIN rooms
  /\ rooms[lastOp.room].hostId = lastOp.conn
  /\ present[lastOp.room] # {}

\* C26 - permanently headless room: a disconnect of the host that leaves other
\* members behind keeps the room in the directory; and while the connection of
\* a room's host identity is closed, no step accepts an updateGameState for
\* that room or emits a gameState broadcast in it.
C26_Headless ==
  [][/\ (/\ lastOp'.kind = "disconnect"
         /\ lastOp'.accepted
         /\ rooms[lastOp'.room].hostId = lastOp'.conn
         /\ Ids(rooms[lastOp'.room].players) \ {lastOp'.conn} # {}) =>
          lastOp'.room \in DOMAIN rooms'
     /\ \A r \in DOMAIN rooms :
          status[rooms[r].hostId] = "closed" =>
            /\ published'[r] = published[r]
            /\ \A d \in Conns :
                 \A k \in 1..Len(delivered'[d]) :
                   delivered'[d][k].room = r => k <= Len(delivered[d])
            /\ lastOp'.room = r =>
                 \A d \in Conns \ {lastOp'.conn} :
                   \A k \in 1..Len(outbox'[d]) : outbox'[d][k].ev # "gameState"]_vars

\* the host's connection is closed, its room lives on, and a remaining member's
\* updateGameState has just been dropped
C26_Witness ==
  /\ lastOp.kind = "updateGameState"
  /\ ~lastOp.accepted
  /\ lastOp.room \in DOMAIN rooms
  /\ status[rooms[lastOp.room].hostId] = "closed"
  /\ lastOp.conn \in Ids(rooms[lastOp.room].players)

\* C27 - forward to a vanished host: a forwarded action from a member of a room
\* whose host's connection is closed is delivered to no connection and changes
\* no room, no binding table and no transport group.
C27_ForwardToVanishedHost ==
  [][(/\ lastOp'.kind \in ForwardKinds
      /\ lastOp'.accepted
      /\ status[rooms[lastOp'.room].hostId] = "closed") =>
       /\ outbox' = Quiet
       /\ rooms' = rooms
       /\ socketToPlayer' = socketToPlayer
       /\ playerToRoom' = playerToRoom
       /\ sockRooms' = sockRooms
       /\ hung' = hung]_vars

\* a member that is still in the room forwarded an action after the host's
\* connection closed
C27_Witness ==
  /\ lastOp.kind \in ForwardKinds
  /\ lastOp.accepted
  /\ lastOp.room \in DOMAIN rooms
  /\ status[rooms[lastOp.room].hostId] = "closed"
  /\ lastOp.conn \in present[lastOp.room]
  /\ outbox = Quiet

\* C28 - member order: whenever the host identity of a room is among the
\* room's members, it is the first one in iteration order.
C28_HostFirst ==
  \A r \in DOMAIN rooms :
    rooms[r].hostId \in Ids(rooms[r].players) =>
      rooms[r].players[1].id = rooms[r].hostId

\* C29 - no resurrection of a departed member: an identity that leaveRoom or
\* disconnect removed from a room, and whose connection has not joined that
\* room again since, is not among the room's members.
C29_NoResurrection ==
  \A r \in DOMAIN rooms : Ids(rooms[r].players) \cap departed[r] = {}

\* C30 - no orphan rooms: every room of the directory has at least one member
\* whose connection is open and bound to that room.
C30_NoOrphanRoom ==
  \A r \in DOMAIN rooms :
    \E c \in Ids(rooms[r].players) :
      /\ status[c] = "open"
      /\ Bound(c)
      /\ RoomOf(c) = r

\* C31 - code reuse isolation: a connection that belonged to an earlier room
\* under a code, and has neither created nor joined the room now stored under
\* that code, is not in that room's transport group, is sent none of its
\* broadcasts and is not among its members.
C31_CodeReuseIsolation ==
  \A r \in DOMAIN rooms :
    \A c \in former[r] :
      /\ r \notin sockRooms[c]
      /\ lastOp.room = r =>
           \A k \in 1..Len(outbox[c]) : outbox[c][k].ev \notin RoomBroadcasts
      /\ c \notin Ids(rooms[r].players)

\* C32 - disconnect always unbinds: after leaveRoom or disconnect ran for a
\* connection it is a key of neither binding table; and every key of
\* socketToPlayer leads to a playerToRoom entry and to a room of the directory,
\* so handlePlayerDisconnect never takes its second or third early return.
C32_DisconnectUnbinds ==
  /\ lastOp.kind \in LeaveKinds =>
       /\ lastOp.conn \notin DOMAIN socketToPlayer
       /\ lastOp.conn \notin DOMAIN playerToRoom
  /\ \A c \in DOMAIN socketToPlayer :
       /\ socketToPlayer[c] \in DOMAIN playerToRoom
       /\ playerToRoom[socketToPlayer[c]] \in DOMAIN rooms

\* a connection that had moved from one room to another disconnected: its room
\* was removed, it is still listed in the room it had moved away from
C32_Witness ==
  /\ lastOp.kind = "disconnect"
  /\ lastOp.accepted
  /\ lastOp.room \notin DOMAIN rooms
  /\ \E r \in DOMAIN rooms : lastOp.conn \in Ids(rooms[r].players)

\* C33 - client/server host view agreement: whenever a client is connected
\* with isHost = true and roomId = R, its connection is bound to R on the server
\* and is R's host identity.
C33_HostViewAgreement ==
  \A c \in Conns :
    (status[c] = "open" /\ view[c].isHost /\ view[c].roomId # NoRoom) =>
      /\ Bound(c)
      /\ RoomOf(c) = view[c].roomId
      /\ rooms[RoomOf(c)].hostId = socketToPlayer[c]

\* C34 - the stored player list is within the membership: every id listed in
\* a room's gameState.players is a key of that room's players map.
C34_StatePlayersAreMembers ==
  \A r \in DOMAIN rooms :
    Ids(rooms[r].gameState.players) \subseteq Ids(rooms[r].players)

\* the host has just published a state that lists an identity which never
\* entered the room, after another member had joined
C34_Witness ==
  /\ lastOp.kind = "updateGameState"
  /\ lastOp.accepted
  /\ lastOp.room \in DOMAIN rooms
  /\ Ids(lastOp.payload.players) \ present[lastOp.room] # {}
  /\ Cardinality(present[lastOp.room]) >= 2

\* C35 - default role distributions are valid: for every player count n from
\* 4 to 20, distributionMeetsLimits(calculateDefaultDistribution(n), n) is true.
C35_DefaultsMeetLimits ==
  (roles.stage = "defaultChecked" /\ roles.playerCount \in 4..20) => roles.meets

\* C36 - binding table shape: socketToPlayer and playerToRoom have the same
\* keys, and socketToPlayer maps every connection id to itself, so no two
\* connections share an identity.
C36_BindingTableShape ==
  /\ DOMAIN socketToPlayer = DOMAIN playerToRoom
  /\ \A c \in DOMAIN socketToPlayer : socketToPlayer[c] = c
  /\ \A c, d \in DOMAIN socketToPlayer :
       socketToPlayer[c] = socketToPlayer[d] => c = d

\* every connection is open and bound at the same time
C36_Witness ==
  /\ DOMAIN socketToPlayer = Conns
  /\ \A c \in Conns : status[c] = "open"

====
